---- MODULE Spec2Model ----
(***************************************************************************)
(* Model of PDFExtractor (src/processor.py): the few-shot loader, the      *)
(* three extraction entry points, the filesystem they read and the hosted  *)
(* model API they call.  Every public method is one action; the outcome of *)
(* the most recent invocation is recorded in `last`.                       *)
(***************************************************************************)
EXTENDS Integers, Sequences, FiniteSets, TLC

VARIABLES few_shot_examples_path, system_prompt, main_prompt, files, last

vars == <<few_shot_examples_path, system_prompt, main_prompt, files, last>>

config == <<few_shot_examples_path, system_prompt, main_prompt>>

\* ------------------------------------------------------------------ bounds
\* Longest examples file (number of entries) the model writes.
MaxExamples == 3

\* ------------------------------------------------------------ value spaces
None == "None"

ExamplesFile == "examples.json"

PdfPaths == {"a.pdf", "b.pdf"}

Paths == {ExamplesFile} \cup PdfPaths

PdfBytes == {"%PDF-A", "%PDF-B"}

\* Values the caller may pass as few_shot_examples_path (default None).
PathArgs == {None, "", ExamplesFile}

\* One entry of the examples file: {"pdf_path": ..., "expected_output": ...}
ExampleEntries ==
  { [pdf_path |-> "a.pdf", expected_output |-> [title_state |-> "CA"]],
    [pdf_path |-> "b.pdf", expected_output |-> [title_state |-> "TX"]] }

RECURSIVE SeqsUpTo(_, _)
SeqsUpTo(S, n) ==
  IF n = 0 THEN {<<>>}
  ELSE LET shorter == SeqsUpTo(S, n - 1)
       IN  shorter \cup {Append(s, e) : s \in {t \in shorter : Len(t) = n - 1}, e \in S}

\* File contents.  kind: "absent" (no such file), "pdf" (bytes), "json" (a
\* parsed list of entries), "malformed" (text json.load rejects).
AbsentFile == [kind |-> "absent", bytes |-> "", examples |-> <<>>]

PdfFile(b) == [kind |-> "pdf", bytes |-> b, examples |-> <<>>]

JsonFile(ex) == [kind |-> "json", bytes |-> "", examples |-> ex]

MalformedFile == [kind |-> "malformed", bytes |-> "", examples |-> <<>>]

ExamplesFileContents ==
  {MalformedFile} \cup {JsonFile(ex) : ex \in SeqsUpTo(ExampleEntries, MaxExamples)}

\* What the hosted API does with the single request.
\* "valid_json": text that validates against VehicleTitle; "missing_field":
\* text that does not (a required field is absent); "api_error": the call
\* itself fails.
ApiReplies == {"valid_json", "missing_field", "api_error"}

\* ------------------------------------------------------ library primitives
\* os.path.exists / Path.exists
Exists(fs, p) == p \in DOMAIN fs /\ fs[p].kind # "absent"

\* a python str in the contents list
Text(s) == [kind |-> "str", data |-> s, mime_type |-> ""]

\* types.Part.from_bytes(data=..., mime_type=...)
PartFromBytes(d, m) == [kind |-> "Part", data |-> d, mime_type |-> m]

\* json.dumps(obj, indent=2): dict -> indented text
JsonDumps(obj) ==
  CASE obj.title_state = "CA" -> "{\n  \"title_state\": \"CA\"\n}"
    [] obj.title_state = "TX" -> "{\n  \"title_state\": \"TX\"\n}"

\* response.parsed: the SDK validates the reply text against the response
\* schema; on a validation or JSON decoding failure it leaves parsed = None.
Parsed(reply) == IF reply = "valid_json" THEN "VehicleTitle" ELSE None

\* ------------------------------------------------ create_few_shot_examples
FewShotInstruction == "Please extract data from the following PDF"

ExampleSegments(fs, example) ==
  << Text(FewShotInstruction),
     PartFromBytes(fs[example.pdf_path].bytes, "application/pdf"),
     Text(JsonDumps(example.expected_output)) >>

\* the loop building the list back to front (insert at 0 instead of extend)
RECURSIVE FewShotLoopReversed(_, _, _)
FewShotLoopReversed(fs, examples, i) ==
  IF i > Len(examples) THEN <<>>
  ELSE IF ~Exists(fs, examples[i].pdf_path)
       THEN FewShotLoopReversed(fs, examples, i + 1)
       ELSE FewShotLoopReversed(fs, examples, i + 1) \o ExampleSegments(fs, examples[i])

\* the loop with `break` where the code has `continue`
RECURSIVE FewShotLoopBreak(_, _, _)
FewShotLoopBreak(fs, examples, i) ==
  IF i > Len(examples) THEN <<>>
  ELSE IF ~Exists(fs, examples[i].pdf_path)
       THEN <<>>
       ELSE ExampleSegments(fs, examples[i]) \o FewShotLoopBreak(fs, examples, i + 1)

\* the for loop of create_few_shot_examples, from entry i on
RECURSIVE FewShotLoop(_, _, _)
FewShotLoop(fs, examples, i) ==
  IF i > Len(examples) THEN <<>>
  ELSE IF ~Exists(fs, examples[i].pdf_path)
       THEN FewShotLoop(fs, examples, i + 1)
       ELSE ExampleSegments(fs, examples[i]) \o FewShotLoop(fs, examples, i + 1)

\* a loader that swallows the decoding error and yields no examples
JsonLoadLenient(file) ==
  [raised |-> FALSE, error |-> "",
   value |-> IF file.kind = "json" THEN file.examples ELSE <<>>]

\* json.load(f) of the examples file
JsonLoad(file) ==
  IF file.kind = "json"
  THEN [raised |-> FALSE, error |-> "", value |-> file.examples]
  ELSE [raised |-> TRUE, error |-> "JSONDecodeError", value |-> <<>>]

\* the guard without its os.path.exists half
NoExamplesFileNoneOnly(path, fs) == path = None \/ path = ""

\* the guard on line 60: falsy path, or no such file
NoExamplesFile(path, fs) == path = None \/ path = "" \/ ~Exists(fs, path)

\* open(path) for reading: the file's content, or FileNotFoundError
OpenRead(fs, p) ==
  IF Exists(fs, p)
  THEN [raised |-> FALSE, error |-> "", file |-> fs[p]]
  ELSE [raised |-> TRUE, error |-> "FileNotFoundError", file |-> AbsentFile]

create_few_shot_examples(path, fs) ==
  IF NoExamplesFile(path, fs)
  THEN [raised |-> FALSE, error |-> "", value |-> <<>>]
  ELSE LET f == OpenRead(fs, path)
           loaded == JsonLoad(f.file)
       IN  IF f.raised
           THEN [raised |-> TRUE, error |-> f.error, value |-> <<>>]
           ELSE IF loaded.raised
           THEN [raised |-> TRUE, error |-> loaded.error, value |-> <<>>]
           ELSE [raised |-> FALSE, error |-> "",
                 value |-> FewShotLoop(fs, loaded.value, 1)]

\* ---------------------------------------------------- extract_data_from_pdf
\* the contents list with the target PDF ahead of the examples
ContentsPdfFirst(sp, few_shot_examples, pdf_data, mp) ==
  <<Text(sp), PartFromBytes(pdf_data, "application/pdf")>>
      \o few_shot_examples \o <<Text(mp)>>

\* the contents list of lines 104-112
Contents(sp, few_shot_examples, pdf_data, mp) ==
  <<Text(sp)>> \o few_shot_examples
      \o <<PartFromBytes(pdf_data, "application/pdf"), Text(mp)>>

\* a client wrapper that calls again after a failed call
GenerateContentRetry(reply) ==
  [calls  |-> IF reply = "api_error" THEN 2 ELSE 1,
   raised |-> FALSE,
   error  |-> "",
   parsed |-> IF reply = "missing_field" THEN None ELSE "VehicleTitle"]

\* self.client.models.generate_content(...): the one outbound call and what
\* comes back from it
GenerateContent(reply) ==
  [calls  |-> 1,
   raised |-> reply = "api_error",
   error  |-> IF reply = "api_error" THEN "APIError" ELSE "",
   parsed |-> Parsed(reply)]

\* The observable outcome of one invocation of a public method.
NoCall ==
  [op |-> "none", arg_pdf |-> "", arg_path |-> "", reply |-> "",
   outcome |-> "none", value |-> None, error |-> "",
   api_calls |-> 0, request |-> <<>>, loads |-> 0, few_shot |-> <<>>,
   load_outcome |-> "none",
   temp_created |-> FALSE, temp_exists |-> FALSE,
   prev_error |-> "none", prev_pdf |-> ""]

\* an extractor that remembers a failure: after an invocation that raised it
\* stops sending the few-shot examples
extract_data_from_pdf_sticky(path, sp, mp, fs, pdf_data, reply) ==
  LET fse  == create_few_shot_examples(path, fs)
      shot == IF last.outcome = "raised" THEN <<>> ELSE fse.value
      req  == Contents(sp, shot, pdf_data, mp)
      resp == GenerateContent(reply)
      base == [NoCall EXCEPT !.op = "extract_data_from_pdf",
                             !.arg_pdf = pdf_data, !.loads = 1]
  IN  IF fse.raised
      THEN [base EXCEPT !.outcome = "raised", !.error = fse.error,
                        !.load_outcome = "raised"]
      ELSE LET sent == [base EXCEPT !.few_shot = shot, !.request = req,
                                    !.load_outcome = "returned",
                                    !.api_calls = resp.calls, !.reply = reply]
           IN  IF resp.raised
               THEN [sent EXCEPT !.outcome = "raised", !.error = resp.error]
               ELSE [sent EXCEPT !.outcome = "returned", !.value = resp.parsed]

extract_data_from_pdf(path, sp, mp, fs, pdf_data, reply) ==
  LET fse  == create_few_shot_examples(path, fs)
      req  == Contents(sp, fse.value, pdf_data, mp)
      resp == GenerateContent(reply)
      base == [NoCall EXCEPT !.op = "extract_data_from_pdf",
                             !.arg_pdf = pdf_data, !.loads = 1]
  IN  IF fse.raised
      THEN [base EXCEPT !.outcome = "raised", !.error = fse.error,
                        !.load_outcome = "raised"]
      ELSE LET sent == [base EXCEPT !.few_shot = fse.value, !.request = req,
                                    !.load_outcome = "returned",
                                    !.api_calls = resp.calls, !.reply = reply]
           IN  IF resp.raised
               THEN [sent EXCEPT !.outcome = "raised", !.error = resp.error]
               ELSE [sent EXCEPT !.outcome = "returned", !.value = resp.parsed]

\* --------------------------------------------------- extract_data_from_file
\* a reader that treats a missing file as empty and carries on
extract_data_from_file_lenient(path, sp, mp, fs, pdf_file_path, reply) ==
  LET f == OpenRead(fs, pdf_file_path)
  IN  [extract_data_from_pdf(path, sp, mp, fs, f.file.bytes, reply)
         EXCEPT !.op = "extract_data_from_file",
                !.arg_path = pdf_file_path]

extract_data_from_file(path, sp, mp, fs, pdf_file_path, reply) ==
  LET f == OpenRead(fs, pdf_file_path)
  IN  IF f.raised
      THEN [NoCall EXCEPT !.op = "extract_data_from_file",
                          !.arg_path = pdf_file_path,
                          !.outcome = "raised", !.error = f.error]
      ELSE [extract_data_from_pdf(path, sp, mp, fs, f.file.bytes, reply)
              EXCEPT !.op = "extract_data_from_file",
                     !.arg_path = pdf_file_path]

\* ------------------------------------------ extract_data_from_uploaded_file
TempPath == "tmp.pdf"

\* staged is FALSE when uploaded_file.getvalue() or temp_file.write() raises
\* inside the `with` block: the file was created with delete=False, the block
\* closes it, and the try/finally that unlinks it is never entered.
extract_data_from_uploaded_file(path, sp, mp, fs, uploaded, staged, reply) ==
  IF ~staged
  THEN [NoCall EXCEPT !.op = "extract_data_from_uploaded_file",
                      !.arg_pdf = uploaded, !.arg_path = TempPath,
                      !.outcome = "raised", !.error = "UploadError",
                      !.temp_created = TRUE, !.temp_exists = TRUE]
  ELSE LET withTemp == [p \in DOMAIN fs \cup {TempPath} |->
                          IF p = TempPath THEN PdfFile(uploaded) ELSE fs[p]]
       IN  [extract_data_from_file(path, sp, mp, withTemp, TempPath, reply)
              EXCEPT !.op = "extract_data_from_uploaded_file",
                     !.arg_pdf = uploaded,
                     !.temp_created = TRUE,
                     \* finally: os.unlink(temp_file_path)
                     !.temp_exists = FALSE]

\* ------------------------------------------------------------ state machine
SystemPrompt == "You are an AI assistant that extracts auto vehicle information from PDFs."

MainPrompt == "Please extract the vehicle information from the attached PDF document."

\* PDFExtractor.__init__: stores the path and the two fixed prompts; reads
\* nothing.  The filesystem starts without the example files.
Init ==
  /\ few_shot_examples_path \in PathArgs
  /\ system_prompt = SystemPrompt
  /\ main_prompt = MainPrompt
  /\ files = [p \in Paths |-> AbsentFile]
  /\ last = NoCall

Finish(result) ==
  /\ last' = [result EXCEPT !.prev_error = IF last.op = "none" THEN "none" ELSE last.error,
                            !.prev_pdf = last.arg_pdf]
  /\ UNCHANGED <<few_shot_examples_path, system_prompt, main_prompt, files>>

CreateFewShotExamples ==
  LET r == create_few_shot_examples(few_shot_examples_path, files)
  IN  Finish([NoCall EXCEPT !.op = "create_few_shot_examples", !.loads = 1,
                            !.outcome = IF r.raised THEN "raised" ELSE "returned",
                            !.load_outcome = IF r.raised THEN "raised" ELSE "returned",
                            !.error = r.error, !.few_shot = r.value])

ExtractDataFromPdf ==
  \E pdf_data \in PdfBytes, reply \in ApiReplies :
    Finish(extract_data_from_pdf(few_shot_examples_path, system_prompt,
                                 main_prompt, files, pdf_data, reply))

ExtractDataFromFile ==
  \E pdf_file_path \in PdfPaths, reply \in ApiReplies :
    Finish(extract_data_from_file(few_shot_examples_path, system_prompt,
                                  main_prompt, files, pdf_file_path, reply))

ExtractDataFromUploadedFile ==
  \E uploaded \in PdfBytes, staged \in BOOLEAN, reply \in ApiReplies :
    \* no request is made when staging fails, so one reply stands for all
    /\ staged \/ reply = "valid_json"
    /\ Finish(extract_data_from_uploaded_file(few_shot_examples_path, system_prompt,
                                           main_prompt, files, uploaded, staged,
                                           reply))

\* The environment: somebody edits the example files between invocations.
\* `last` describes an invocation against the files as they are now, so an
\* edit discards it.
WriteExamplesFile ==
  \E c \in ExamplesFileContents :
    /\ files[ExamplesFile] # c
    /\ files' = [files EXCEPT ![ExamplesFile] = c]
    /\ last' = NoCall
    /\ UNCHANGED <<few_shot_examples_path, system_prompt, main_prompt>>

WritePdf ==
  \E p \in PdfPaths, b \in PdfBytes :
    /\ files[p] # PdfFile(b)
    /\ files' = [files EXCEPT ![p] = PdfFile(b)]
    /\ last' = NoCall
    /\ UNCHANGED <<few_shot_examples_path, system_prompt, main_prompt>>

RemoveFile ==
  \E p \in Paths :
    /\ Exists(files, p)
    /\ files' = [files EXCEPT ![p] = AbsentFile]
    /\ last' = NoCall
    /\ UNCHANGED <<few_shot_examples_path, system_prompt, main_prompt>>

Next ==
  \/ CreateFewShotExamples
  \/ ExtractDataFromPdf
  \/ ExtractDataFromFile
  \/ ExtractDataFromUploadedFile
  \/ WriteExamplesFile
  \/ WritePdf
  \/ RemoveFile

Spec == Init /\ [][Next]_vars

TypeOK ==
  /\ few_shot_examples_path \in PathArgs
  /\ last.api_calls \in 0..2
  /\ last.outcome \in {"none", "returned", "raised"}

\* ------------------------------------------------------------------ claims
ExtractionOps ==
  {"extract_data_from_pdf", "extract_data_from_file", "extract_data_from_uploaded_file"}

\* the entries of the examples file as it is now (empty unless it parses)
CurrentExamples == files[ExamplesFile].examples

\* the invocation read an examples file that parsed
LoadedExamples ==
  /\ last.loads = 1
  /\ few_shot_examples_path = ExamplesFile
  /\ files[ExamplesFile].kind = "json"

\* positions 3i-2 .. 3i of the few-shot list are the triple of `example`
TripleAt(i, example) ==
  /\ last.few_shot[3 * i - 2] = Text(FewShotInstruction)
  /\ last.few_shot[3 * i - 1].kind = "Part"
  /\ last.few_shot[3 * i - 1].mime_type = "application/pdf"
  /\ last.few_shot[3 * i - 1].data = files[example.pdf_path].bytes
  /\ last.few_shot[3 * i].kind = "str"
  /\ last.few_shot[3 * i].data = JsonDumps(example.expected_output)

\* C1: whenever an extraction issues its request, the contents list is the
\* system instruction, then the 3k few-shot segments in their built order,
\* then the target PDF tagged application/pdf, then the closing instruction;
\* its length is 3k + 3 and no PDF part comes after the target PDF.
C1_RequestLayout ==
  last.api_calls >= 1 =>
    LET req == last.request
        n   == Len(req)
        k   == Len(SelectSeq(last.few_shot, LAMBDA seg : seg.kind = "Part"))
    IN  /\ Len(last.few_shot) = 3 * k
        /\ n = 1 + 3 * k + 1 + 1
        /\ req[1] = Text(system_prompt)
        /\ \A i \in 1..(3 * k) : req[1 + i] = last.few_shot[i]
        /\ req[n - 1] = PartFromBytes(last.arg_pdf, "application/pdf")
        /\ req[n] = Text(main_prompt)
        /\ \A i \in 1..n : req[i].kind = "Part" => i <= n - 1

\* an extraction from a file, with one valid example, sent six segments
C1_Witness ==
  /\ last.op = "extract_data_from_file"
  /\ last.api_calls = 1
  /\ Len(last.few_shot) = 3
  /\ Len(last.request) = 6
  /\ last.outcome = "returned"

\* C2: an API reply that does not validate against the VehicleTitle schema
\* ends the extraction in an error; no value (not even None) is returned.
C2_UnparseableRaises ==
  (last.op \in ExtractionOps /\ last.reply = "missing_field")
    => last.outcome = "raised"

\* C3: the temporary file an upload was staged in is gone when the call
\* finishes, whatever the exit path.
C3_TempFileRemoved ==
  last.temp_created => ~last.temp_exists

\* C4: an invocation issues at most one API call, and a failed call is raised
\* to the caller without a second call.
C4_NoRetry ==
  /\ last.api_calls <= 1
  /\ last.reply = "api_error" =>
        /\ last.api_calls = 1
        /\ last.outcome = "raised"
        /\ last.error = "APIError"

\* the longest call chain (upload -> file -> bytes) saw its one call fail
C4_Witness ==
  /\ last.op = "extract_data_from_uploaded_file"
  /\ last.reply = "api_error"
  /\ last.outcome = "raised"
  /\ last.api_calls = 1

\* C5: when every entry of the examples file references an existing PDF, the
\* few-shot list is one triple per entry (instruction, the PDF's bytes tagged
\* application/pdf, the expected output as indented JSON text), in file
\* order, of length 3 * (number of entries).
C5_AllExamplesInOrder ==
  (LoadedExamples
     /\ \A i \in 1..Len(CurrentExamples) : Exists(files, CurrentExamples[i].pdf_path))
    => /\ last.load_outcome = "returned"
       /\ Len(last.few_shot) = 3 * Len(CurrentExamples)
       /\ \A i \in 1..Len(CurrentExamples) : TripleAt(i, CurrentExamples[i])

\* two different examples, both present, were loaded
C5_Witness ==
  /\ LoadedExamples
  /\ last.op = "create_few_shot_examples"
  /\ Len(CurrentExamples) = 2
  /\ CurrentExamples[1].pdf_path # CurrentExamples[2].pdf_path
  /\ \A i \in 1..2 : Exists(files, CurrentExamples[i].pdf_path)
  /\ Len(last.few_shot) = 6

\* C6: an entry whose pdf_path does not exist is skipped without an error,
\* and the entries whose PDF exists, before and after it, contribute their
\* triples in their original relative order.
C6_MissingExamplesSkipped ==
  LoadedExamples =>
    LET kept == SelectSeq(CurrentExamples, LAMBDA e : Exists(files, e.pdf_path))
    IN  /\ last.load_outcome = "returned"
        /\ Len(last.few_shot) = 3 * Len(kept)
        /\ \A i \in 1..Len(kept) : TripleAt(i, kept[i])

\* a missing entry with a present entry on either side of it
C6_Witness ==
  /\ LoadedExamples
  /\ Len(CurrentExamples) = 3
  /\ Exists(files, CurrentExamples[1].pdf_path)
  /\ ~Exists(files, CurrentExamples[2].pdf_path)
  /\ Exists(files, CurrentExamples[3].pdf_path)
  /\ last.load_outcome = "returned"
  /\ Len(last.few_shot) = 6

\* C7: with the few-shot path omitted (None or empty), or the examples file
\* absent at call time, the loader returns the empty list without an error,
\* and an extraction sends a request with no few-shot segments.
C7_NoExamplesNoError ==
  (last.loads = 1
     /\ (few_shot_examples_path \in {None, ""}
           \/ files[ExamplesFile].kind = "absent"))
    => /\ last.load_outcome = "returned"
       /\ last.few_shot = <<>>
       /\ last.op \in ExtractionOps =>
             /\ last.api_calls = 1
             /\ last.request = <<Text(system_prompt),
                                 PartFromBytes(last.arg_pdf, "application/pdf"),
                                 Text(main_prompt)>>

\* a configured path whose file is absent, and the extraction went through
C7_Witness ==
  /\ few_shot_examples_path = ExamplesFile
  /\ files[ExamplesFile].kind = "absent"
  /\ last.op = "extract_data_from_pdf"
  /\ last.loads = 1
  /\ last.outcome = "returned"
  /\ Len(last.request) = 3

\* C8: extract_data_from_file on a path that does not exist raises before
\* the few-shot examples are loaded and before any API call.
C8_MissingFileNoApiCall ==
  (last.op = "extract_data_from_file" /\ ~Exists(files, last.arg_path))
    => /\ last.outcome = "raised"
       /\ last.error = "FileNotFoundError"
       /\ last.api_calls = 0
       /\ last.loads = 0
       /\ last.request = <<>>

\* the path was missing while usable examples were there to be loaded
C8_Witness ==
  /\ last.op = "extract_data_from_file"
  /\ ~Exists(files, last.arg_path)
  /\ last.outcome = "raised"
  /\ few_shot_examples_path = ExamplesFile
  /\ files[ExamplesFile].kind = "json"
  /\ \E i \in 1..Len(CurrentExamples) : Exists(files, CurrentExamples[i].pdf_path)

\* C9: no step changes the extractor's configuration, and an invocation that
\* follows another on the same PDF bytes with the same files sends the same
\* request, whatever the earlier invocation's outcome.
C9_Stateless ==
  [][ /\ config' = config
      /\ (/\ last.request # <<>>
          /\ last'.request # <<>>
          /\ last'.arg_pdf = last.arg_pdf
          /\ files' = files)
           => last'.request = last.request ]_vars

\* a successful extraction with examples right after a failed one on the
\* same bytes
C9_Witness ==
  /\ last.prev_error = "APIError"
  /\ last.prev_pdf = last.arg_pdf
  /\ last.outcome = "returned"
  /\ Len(last.request) = 6

\* C10: when the examples file exists but does not parse as JSON, the loader
\* raises and returns no segments, and an extraction fails with that error
\* without issuing a request.
C10_MalformedFailsLoad ==
  (last.loads = 1
     /\ few_shot_examples_path = ExamplesFile
     /\ files[ExamplesFile].kind = "malformed")
    => /\ last.load_outcome = "raised"
       /\ last.outcome = "raised"
       /\ last.error = "JSONDecodeError"
       /\ last.few_shot = <<>>
       /\ last.api_calls = 0
       /\ last.request = <<>>

\* an extraction ran into the malformed file
C10_Witness ==
  /\ last.op = "extract_data_from_pdf"
  /\ files[ExamplesFile].kind = "malformed"
  /\ few_shot_examples_path = ExamplesFile
  /\ last.outcome = "raised"
  /\ last.error = "JSONDecodeError"

====
